---- MODULE Spec2Model ----
(***************************************************************************)
(* Chunked transcription pipeline of the video transcription app:          *)
(* transcribeAudio / transcribeChunks / transcribeAudioFile (the retry     *)
(* loop around the Whisper request) and the part of POST /api/transcribe   *)
(* that calls the pipeline and turns its outcome into an HTTP response.    *)
(*                                                                         *)
(* Text is a sequence of one-character strings.  An optional value         *)
(* (undefined in the source) is a record [defined, value].                 *)
(***************************************************************************)
EXTENDS Integers, Sequences, FiniteSets, TLC

\* ------------------------------------------------------------------ bounds
\* Largest chunk list handed to the pipeline.
MaxChunks == 2

\* Largest attempt number whose backoff delay is computed.
MaxAttempt == 14

\* The last millisecond of Date.now() the requests are followed to.
MaxClock == 2

\* The largest number of chunk files ffmpeg leaves in the output directory.
MaxFiles == 3

\* ------------------------------------------------------- program constants
ROLLING_PROMPT_LENGTH == 1500

\* One attempt more than configured.
maxRetries_more == 2 + 2

maxRetries == 3

initialDelayMs == 1000

maxDelayMs == 10000

\* ------------------------------------------------------------ optional values
Undefined == [defined |-> FALSE, value |-> <<>>]

Some(v) == [defined |-> TRUE, value |-> v]

\* ------------------------------------------------------------------- texts
EmptyText == <<>>

ShortText == <<"o", "k">>

\* One character longer than the rolling prompt window; first and last
\* characters differ from the middle so that head and tail windows differ.
LongText ==
  [k \in 1..(ROLLING_PROMPT_LENGTH + 1) |->
     IF k = 1 THEN "h" ELSE IF k = ROLLING_PROMPT_LENGTH + 1 THEN "t" ELSE "m"]

\* Texts the transcription service may return for a request.
Outputs == {EmptyText, ShortText, LongText}

\* A non-empty hint supplied by the caller.
SeedText == <<"s">>

\* ------------------------------------------------------------------- errors
\* An error thrown by the SDK: status 0 stands for "no status property",
\* code "" for "no code property".
Err(s, c) == [status |-> s, code |-> c]

NoError == Err(0, "null")

E429 == Err(429, "")

E500 == Err(500, "")

EConnReset == Err(0, "ECONNRESET")

ETimedOut == Err(0, "ETIMEDOUT")

E401 == Err(401, "")

E400 == Err(400, "")

\* An error with neither status nor code (a TypeError, say).
EUnclassified == Err(0, "")

\* new Error('Transcription failed after retries')
EAfterRetries == Err(0, "")

\* Errors the transcription request may fail with.
Faults == {E429, E500, EConnReset, ETimedOut, E401, E400, EUnclassified}

\* -------------------------------------------------------------------- paths
AudioPath == [file |-> "extracted_audio.mp3", n |-> 0]

ChunkPath(k) == [file |-> "chunk_%03d.mp3", n |-> k]

\* The chunk list chunkAudio produces for n chunk files.
ChunkList(n) == [k \in 1..n |-> [path |-> ChunkPath(k - 1), index |-> k - 1]]

\* ----------------------------------------------------------- pure functions
Min(a, b) == IF a < b THEN a ELSE b

Max(a, b) == IF a > b THEN a ELSE b

RECURSIVE Pow2(_)
Pow2(n) == IF n <= 0 THEN 1 ELSE 2 * Pow2(n - 1)

\* A backoff that does not grow.
getRetryDelay_flat(att) == Min(initialDelayMs, maxDelayMs)

\* A backoff without the cap.
getRetryDelay_uncapped(att) == initialDelayMs * Pow2(att)

getRetryDelay(att) == Min(initialDelayMs * Pow2(att), maxDelayMs)

\* Client errors are retried as well.
isRetriable_clientToo(e) ==
  \/ e.status >= 400
  \/ e.code = "ECONNRESET"
  \/ e.code = "ETIMEDOUT"

\* Only server statuses are retried, network codes are not.
isRetriable_statusOnly(e) == e.status >= 500

isRetriable(e) ==
  \/ e.status >= 500
  \/ e.code = "ECONNRESET"
  \/ e.code = "ETIMEDOUT"

\* String.prototype.slice(-n)
SliceLast(s, n) == SubSeq(s, Max(Len(s) - n, 0) + 1, Len(s))

\* Keeps the head of the transcript instead of its tail.
RollingPromptAfter_head(transcript) ==
  IF Len(transcript) > ROLLING_PROMPT_LENGTH
  THEN SubSeq(transcript, 1, ROLLING_PROMPT_LENGTH)
  ELSE transcript

RollingPromptAfter(transcript) ==
  IF Len(transcript) > ROLLING_PROMPT_LENGTH
  THEN SliceLast(transcript, ROLLING_PROMPT_LENGTH)
  ELSE transcript

\* A single line break between chunks.
Separator_single == <<"\n">>

Separator == <<"\n", "\n">>

\* Array.prototype.join
RECURSIVE JoinFrom(_, _, _)
JoinFrom(list, sep, k) ==
  IF k > Len(list) THEN <<>>
  ELSE IF k = Len(list) THEN list[k]
  ELSE list[k] \o sep \o JoinFrom(list, sep, k + 1)

Join(list, sep) == JoinFrom(list, sep, 1)

\* The empty string is sent as a prompt instead of being omitted.
OrUndefined_always(s) == Some(s)

\* x || undefined for a string x
OrUndefined(s) == IF s = <<>> THEN Undefined ELSE Some(s)

\* destructuring default: initialPrompt = ''
DefaultEmpty(o) == IF o.defined THEN o.value ELSE <<>>

\* typeof transcription === 'string' ? transcription : transcription.text
\* (a string body is [kind |-> "string", body], a JSON body [kind |-> "json", text])
TextOf(resp) == IF resp.kind = "string" THEN resp.body ELSE resp.text

\* A chunk list that treats only a missing list as "no chunks".
NoChunks_missingOnly(c) == ~c.defined

\* !chunks || chunks.length === 0
NoChunks(c) == ~c.defined \/ Len(c.value) = 0


\* ----------------------------------------------------- request validation
\* 25 * 1024 * 1024 (client.ts line 67)
MAX_UPLOAD_BYTES == 25 * 1024 * 1024

\* z.enum(['whisper-1', 'gpt-4o-transcribe']) (processor.ts line 239)
whisperModelSchema == {"whisper-1", "gpt-4o-transcribe"}

\* z.enum(['text', 'verbose_json', 'srt', 'vtt']) (processor.ts line 242)
responseFormatSchema == {"text", "verbose_json", "srt", "vtt"}

\* The bounds of the request schema (processor.ts lines 247-249).
languageLength == 2
promptMax_more == 1500 + 1
promptMax == 1500
chunkSecondsMin == 300
chunkSecondsMax == 600

\* s.startsWith(p)
startsWith(s, p) == Len(s) >= Len(p) /\ SubSeq(s, 1, Len(p)) = p

VideoSlash == <<"v", "i", "d", "e", "o", "/">>

Digits == {"0", "1", "2", "3", "4", "5", "6", "7", "8", "9"}

DigitValue(c) ==
  CASE c = "0" -> 0 [] c = "1" -> 1 [] c = "2" -> 2 [] c = "3" -> 3
    [] c = "4" -> 4 [] c = "5" -> 5 [] c = "6" -> 6 [] c = "7" -> 7
    [] c = "8" -> 8 [] c = "9" -> 9

RECURSIVE ParseDigits(_)
ParseDigits(s) ==
  IF s = <<>> THEN 0
  ELSE 10 * ParseDigits(SubSeq(s, 1, Len(s) - 1)) + DigitValue(s[Len(s)])

\* Number(s) of a non-empty string: the value of a string of decimal digits,
\* NaN for a string that is not a numeric literal.
Number(s) ==
  IF \A k \in DOMAIN s : s[k] \in Digits
  THEN [nan |-> FALSE, n |-> ParseDigits(s)]
  ELSE [nan |-> TRUE, n |-> 0]

\* formData.get(name) || undefined for a field whose values are names
\* (route.ts lines 65, 71)
NoName == [defined |-> FALSE, value |-> ""]

FormName(v) == IF v.defined /\ v.value # "" THEN v ELSE NoName

\* formData.get(name) || undefined for a text field (route.ts lines 66, 67)
FormOption(v) == IF v.defined /\ v.value # <<>> THEN v ELSE Undefined

\* formData.get('chunkSeconds') ? Number(...) : undefined (route.ts lines 68-70)
FormNumber(v) ==
  IF v.defined /\ v.value # <<>>
  THEN [defined |-> TRUE, value |-> Number(v.value)]
  ELSE [defined |-> FALSE, value |-> [nan |-> TRUE, n |-> 0]]

\* rawOptions (route.ts lines 64-72)
rawOptions(f) ==
  [model |-> FormName(f.model),
   language |-> FormOption(f.language),
   prompt |-> FormOption(f.prompt),
   chunkSeconds |-> FormNumber(f.chunkSeconds),
   responseFormat |-> FormName(f.responseFormat)]

\* z.string().max(1500).optional() (processor.ts line 248)
promptValid(p) == ~p.defined \/ Len(p.value) <= promptMax

\* transcriptionRequestSchema.safeParse(raw) (processor.ts lines 245-251): the
\* verdict, and of the parsed data the prompt, the one option the pipeline's
\* control flow reads.
safeParse(raw) ==
  [success |->
     /\ ~raw.model.defined \/ raw.model.value \in whisperModelSchema
     /\ ~raw.language.defined \/ Len(raw.language.value) = languageLength
     /\ promptValid(raw.prompt)
     /\ \/ ~raw.chunkSeconds.defined
        \/ /\ ~raw.chunkSeconds.value.nan
           /\ raw.chunkSeconds.value.n >= chunkSecondsMin
           /\ raw.chunkSeconds.value.n <= chunkSecondsMax
     /\ ~raw.responseFormat.defined
          \/ raw.responseFormat.value \in responseFormatSchema,
   data |-> [prompt |-> raw.prompt]]


\* --------------------------------------------------------------------- state
VARIABLES
  pc,            \* where the invocation stands: "idle", "await" (a request is
                 \* outstanding), "sleep" (backoff), "returned"
                 \* (transcribeAudioFile resolved, its caller not yet resumed),
                 \* "resolved", "rejected", "responded" (POST returned)
  caller,        \* "route" (POST /api/transcribe) or "direct"
  entry,         \* "transcribeAudio" or "transcribeChunks"
  frame,         \* the function awaiting transcribeAudioFile
  chunks,        \* optional chunk list passed to the entry point
  options,       \* [prompt, initialPrompt, onProgress] passed to the entry point
  i,             \* transcribeChunks: loop index
  rollingPrompt, \* transcribeChunks: rollingPrompt
  transcripts,   \* transcribeChunks: transcripts
  curPath,       \* transcribeAudioFile: audioPath
  curPrompt,     \* transcribeAudioFile: prompt
  attempt,       \* transcribeAudioFile: attempt
  lastError,     \* transcribeAudioFile: lastError
  callValue,     \* value transcribeAudioFile resolved with
  result,        \* value the pipeline resolved with
  error,         \* error the pipeline rejected with
  response,      \* response of POST
  events,        \* what the invocation did, in order: requests sent, backoff
                 \* sleeps started, onProgress calls
  calls,         \* the transcribeAudioFile calls made: [path, prompt]
  inflight,      \* requests sent and not yet answered (positions in events)
  produced,      \* service side: texts returned, [path, text], in order
  faults,        \* service side: errors raised for the current call, in order
  rpc,           \* where POST stands: "idle", "validate", "createTempDir",
                 \* "saveUploadedFile", "processVideo", "pipeline" (awaiting
                 \* transcribeAudio), "finally", "done" (response returned)
  ffmpegAvailable, \* what checkFfmpegAvailable resolves with
  form,          \* POST: formData, until the options are parsed
  parsed,        \* POST: options (validationResult.data)
  tempDir,       \* POST: tempDir
  audioSize,     \* processVideo: extractionResult.size (0 before extraction)
  fsLog,         \* file-system and ffmpeg operations of POST, [op, ok], in order
  other,         \* the locals of a second, suspended pipeline invocation
  clock,         \* createTempDir: Date.now(), in ms
  requests,      \* two API requests: [phase, dir] of each
  dirsOnDisk,    \* the temp directories that exist
  filesOnDisk,   \* the files in them: [dir, owner]
  cpc,           \* where chunkAudio stands: "idle", "probing", "returned"
  listing,       \* chunkAudio: files (what readdir resolved with)
  chunkFiles,    \* chunkAudio: chunkFiles
  probed,        \* chunkAudio: the positions whose getAudioDuration resolved,
                 \* in the order they resolved, with the duration
  chunkingResult, \* chunkAudio: chunks (what Promise.all resolved with)
  processingState, \* TranscribePage: processingState [status, progress]
  pageResult,    \* TranscribePage: result
  pageError,     \* TranscribePage: error
  selectedFile,  \* TranscribePage: selectedFile
  uploader,      \* VideoUploader: [mounted, selectedFile, error]
  hpc,           \* where handleTranscribe stands: "none", "fetch", "errorJson",
                 \* "json", "delay"
  fetches,       \* requests to /api/transcribe sent and not yet answered
  statusLog      \* the calls of setProcessingState since the last run began

routeVars == <<ffmpegAvailable, form, parsed, tempDir, audioSize, fsLog>>

dirVars == <<clock, requests, dirsOnDisk, filesOnDisk>>

chunkVars == <<cpc, listing, chunkFiles, probed, chunkingResult>>

pageVars ==
  <<processingState, pageResult, pageError, selectedFile, uploader, hpc, fetches,
    statusLog>>

sideVars == <<dirVars, chunkVars, pageVars>>

vars ==
  <<pc, caller, entry, frame, chunks, options, i, rollingPrompt, transcripts, curPath,
    curPrompt, attempt, lastError, callValue, result, error, response, events,
    calls, inflight, produced, faults, rpc, routeVars, other, sideVars>>

\* The variables of the pipeline and of POST.
mainVars ==
  <<pc, caller, entry, frame, chunks, options, i, rollingPrompt, transcripts, curPath,
    curPrompt, attempt, lastError, callValue, result, error, response, events,
    calls, inflight, produced, faults, rpc, routeVars, other>>

\* The variables of a pipeline invocation, the response of POST apart.
runVars ==
  <<pc, caller, entry, frame, chunks, options, i, rollingPrompt, transcripts, curPath,
    curPrompt, attempt, lastError, callValue, result, error, events, calls,
    inflight, produced, faults>>

NoResult == [defined |-> FALSE, transcript |-> <<>>, chunksProcessed |-> 0]

NoResponse ==
  [status |-> 0, success |-> FALSE, error |-> "", transcript |-> <<>>,
   chunksProcessed |-> 0]

NoOptions == [prompt |-> Undefined, initialPrompt |-> Undefined, onProgress |-> FALSE]

RequestEvent(path, prompt, att) ==
  [type |-> "request", path |-> path, prompt |-> prompt, attempt |-> att,
   ms |-> 0, current |-> 0, total |-> 0]

SleepEvent(path, att, ms) ==
  [type |-> "sleep", path |-> path, prompt |-> Undefined, attempt |-> att,
   ms |-> ms, current |-> 0, total |-> 0]

ProgressEvent(path, current, total) ==
  [type |-> "progress", path |-> path, prompt |-> Undefined, attempt |-> 0,
   ms |-> 0, current |-> current, total |-> total]

\* A request body whose fields are all absent.
NoForm ==
  [video |-> [kind |-> "absent", type |-> <<>>, value |-> <<>>, sizeKiB |-> 0],
   model |-> NoName, language |-> Undefined, prompt |-> Undefined,
   chunkSeconds |-> Undefined, responseFormat |-> NoName]

\* let tempDir: string | null = null (route.ts line 25)
NoDir == [defined |-> FALSE, value |-> ""]

\* POST before a request has arrived.
InitRoute ==
  /\ rpc = "idle"
  /\ ffmpegAvailable = TRUE
  /\ form = NoForm
  /\ parsed = [prompt |-> Undefined]
  /\ tempDir = NoDir
  /\ audioSize = 0
  /\ fsLog = <<>>

\* No file is selected (null).
NoFile == [name |-> "", type |-> <<>>, sizeKiB |-> 0]

\* Two requests that have not reached createTempDir, chunkAudio before
\* readdir, and the transcription page as first rendered (part_000 lines
\* 112-119, part_002 lines 20-22).
InitSide ==
  /\ clock = 0
  /\ requests = [r \in {1, 2} |-> [phase |-> "start", dir |-> NoDir]]
  /\ dirsOnDisk = {}
  /\ filesOnDisk = {}
  /\ cpc = "idle"
  /\ listing = <<>>
  /\ chunkFiles = <<>>
  /\ probed = <<>>
  /\ chunkingResult = [chunks |-> <<>>, totalDuration |-> 0]
  /\ processingState = [status |-> "idle", progress |-> 0]
  /\ pageResult = Undefined
  /\ pageError = ""
  /\ selectedFile = NoFile
  /\ uploader = [mounted |-> TRUE, selectedFile |-> NoFile, error |-> ""]
  /\ hpc = "none"
  /\ fetches = 0
  /\ statusLog = <<>>

\* The locals of a pipeline invocation that has not started.
IdleInvocation ==
  [pc |-> "idle", caller |-> "direct", entry |-> "transcribeAudio",
   frame |-> "transcribeAudio", chunks |-> Undefined, options |-> NoOptions,
   i |-> 0, rollingPrompt |-> <<>>, transcripts |-> <<>>, curPath |-> AudioPath,
   curPrompt |-> Undefined, attempt |-> 0, lastError |-> NoError,
   callValue |-> <<>>, result |-> NoResult, error |-> NoError,
   response |-> NoResponse, events |-> <<>>, calls |-> <<>>, inflight |-> {},
   produced |-> <<>>, faults |-> <<>>]

Init ==
  /\ pc = "idle"
  /\ caller = "direct"
  /\ entry = "transcribeAudio"
  /\ frame = "transcribeAudio"
  /\ chunks = Undefined
  /\ options = NoOptions
  /\ i = 0
  /\ rollingPrompt = <<>>
  /\ transcripts = <<>>
  /\ curPath = AudioPath
  /\ curPrompt = Undefined
  /\ attempt = 0
  /\ lastError = NoError
  /\ callValue = <<>>
  /\ result = NoResult
  /\ error = NoError
  /\ response = NoResponse
  /\ events = <<>>
  /\ calls = <<>>
  /\ inflight = {}
  /\ produced = <<>>
  /\ faults = <<>>
  /\ InitRoute
  /\ other = IdleInvocation
  /\ InitSide

\* ------------------------------------------------------ transcribeAudioFile
\* The head of the retry loop: sends the request of attempt att, or, with the
\* budget used up, leaves the loop and throws.
LoopHead(path, prompt, att, ev, lastErr) ==
  IF att < maxRetries
  THEN /\ attempt' = att
       /\ events' = Append(ev, RequestEvent(path, prompt, att))
       /\ inflight' = inflight \cup {Len(ev) + 1}
       /\ pc' = "await"
       /\ error' = error
  ELSE /\ attempt' = att
       /\ events' = ev
       /\ inflight' = inflight
       /\ pc' = "rejected"
       /\ error' = IF lastErr = NoError THEN EAfterRetries ELSE lastErr

\* The attempt counter is kept from the previous call.
BeginCall_sharedAttempt(path, prompt, ev) ==
  /\ curPath' = path
  /\ curPrompt' = prompt
  /\ lastError' = NoError
  /\ faults' = <<>>
  /\ calls' = Append(calls, [path |-> path, prompt |-> prompt])
  /\ LoopHead(path, prompt, attempt, ev, NoError)

\* transcribeAudioFile(path, {prompt}) up to its first await.
BeginCall(path, prompt, ev) ==
  /\ curPath' = path
  /\ curPrompt' = prompt
  /\ lastError' = NoError
  /\ faults' = <<>>
  /\ calls' = Append(calls, [path |-> path, prompt |-> prompt])
  /\ LoopHead(path, prompt, 0, ev, NoError)


\* A service answer: a string body (response_format text, srt, vtt) or a JSON
\* body with a text field.
Answers ==
  {[kind |-> "string", body |-> t] : t \in Outputs}
    \cup {[kind |-> "json", text |-> t] : t \in Outputs}

\* The request of the current attempt succeeds (lines 53-63).
CreateResolves ==
  /\ UNCHANGED sideVars
  /\ UNCHANGED <<rpc, routeVars, other>>
  /\ pc = "await"
  /\ \E id \in inflight, resp \in Answers :
       /\ inflight' = inflight \ {id}
       /\ produced' = Append(produced, [path |-> events[id].path, text |-> TextOf(resp)])
       /\ callValue' = TextOf(resp)
  /\ pc' = "returned"
  /\ UNCHANGED <<caller, entry, frame, chunks, options, i, rollingPrompt,
                 transcripts, curPath, curPrompt, attempt, lastError, result,
                 error, response, events, calls, faults>>

\* The catch block with a failure that is swallowed and the pipeline resumed
\* as if the call had returned an empty text.
Catch_skip(err) ==
  /\ lastError' = err
  /\ IF (err.status = 429 \/ isRetriable(err)) /\ attempt < maxRetries - 1
     THEN /\ events' = Append(events, SleepEvent(curPath, attempt, getRetryDelay(attempt)))
          /\ pc' = "sleep"
          /\ callValue' = callValue
     ELSE /\ events' = events
          /\ pc' = "returned"
          /\ callValue' = <<>>
  /\ error' = error

\* The catch block backing off after the last attempt as well.
Catch_sleepLast(err) ==
  /\ lastError' = err
  /\ callValue' = callValue
  /\ error' = error
  /\ IF err.status = 429 \/ isRetriable(err)
     THEN /\ events' = Append(events, SleepEvent(curPath, attempt, getRetryDelay(attempt)))
          /\ pc' = "sleep"
     ELSE /\ events' = events
          /\ pc' = "rejected"

\* The catch block throwing the first error of the call instead of the last.
Catch_throwsFirst(err) ==
  /\ lastError' = err
  /\ callValue' = callValue
  /\ IF (err.status = 429 \/ isRetriable(err)) /\ attempt < maxRetries - 1
     THEN /\ events' = Append(events, SleepEvent(curPath, attempt, getRetryDelay(attempt)))
          /\ pc' = "sleep"
          /\ error' = error
     ELSE /\ events' = events
          /\ pc' = "rejected"
          /\ error' = IF faults = <<>> THEN err ELSE faults[1]

\* The catch block of the retry loop (lines 64-90).
Catch(err) ==
  /\ lastError' = err
  /\ callValue' = callValue
  /\ IF err.status = 429 /\ attempt < maxRetries - 1
     THEN /\ events' = Append(events, SleepEvent(curPath, attempt, getRetryDelay(attempt)))
          /\ pc' = "sleep"
          /\ error' = error
     ELSE IF isRetriable(err) /\ attempt < maxRetries - 1
     THEN /\ events' = Append(events, SleepEvent(curPath, attempt, getRetryDelay(attempt)))
          /\ pc' = "sleep"
          /\ error' = error
     ELSE /\ events' = events
          /\ pc' = "rejected"
          /\ error' = err

\* The request of the current attempt fails with err.
CreateRejects ==
  /\ UNCHANGED sideVars
  /\ UNCHANGED <<rpc, routeVars, other>>
  /\ pc = "await"
  /\ \E id \in inflight, err \in Faults :
       /\ inflight' = inflight \ {id}
       /\ faults' = Append(faults, err)
       /\ Catch(err)
  /\ UNCHANGED <<caller, entry, frame, chunks, options, i, rollingPrompt,
                 transcripts, curPath, curPrompt, attempt, result, response,
                 calls, produced>>

\* The promise of sleep is never resolved.
SleepElapses_never ==
  /\ pc = "sleep"
  /\ FALSE
  /\ UNCHANGED vars

\* The backoff timer fires: continue, attempt++, loop head (lines 71-72, 51).
SleepElapses ==
  /\ UNCHANGED sideVars
  /\ UNCHANGED <<rpc, routeVars, other>>
  /\ pc = "sleep"
  /\ LoopHead(curPath, curPrompt, attempt + 1, events, lastError)
  /\ UNCHANGED <<caller, entry, frame, chunks, options, i, rollingPrompt,
                 transcripts, curPath, curPrompt, lastError, callValue, result,
                 response, calls, produced, faults>>


\* --------------------------------------------------------- transcribeChunks
\* All chunk requests are sent at once instead of one after the other.
ChunkLoop_concurrent(list, idx, ts, rp, ev) ==
  /\ idx < Len(list)
  /\ i' = idx
  /\ transcripts' = ts
  /\ rollingPrompt' = rp
  /\ result' = result
  /\ curPath' = list[idx + 1].path
  /\ curPrompt' = OrUndefined(rp)
  /\ lastError' = NoError
  /\ faults' = <<>>
  /\ attempt' = 0
  /\ error' = error
  /\ pc' = "await"
  /\ calls' = calls \o [k \in 1..(Len(list) - idx) |->
                          [path |-> list[idx + k].path, prompt |-> OrUndefined(rp)]]
  /\ events' = ev \o [k \in 1..(Len(list) - idx) |->
                        RequestEvent(list[idx + k].path, OrUndefined(rp), 0)]
  /\ inflight' = inflight \cup {Len(ev) + k : k \in 1..(Len(list) - idx)}

\* The loop of transcribeChunks at index idx (line 121): calls
\* transcribeAudioFile for chunk idx with the rolling prompt (lines 122-132),
\* or, past the last chunk, joins the transcripts and returns (lines 149-155).
ChunkLoop(list, idx, ts, rp, ev) ==
  /\ i' = idx
  /\ transcripts' = ts
  /\ rollingPrompt' = rp
  /\ IF idx < Len(list)
     THEN /\ BeginCall(list[idx + 1].path, OrUndefined(rp), ev)
          /\ result' = result
     ELSE /\ result' = [defined |-> TRUE, transcript |-> Join(ts, Separator),
                        chunksProcessed |-> Len(list)]
          /\ pc' = "resolved"
          /\ events' = ev
          /\ UNCHANGED <<curPath, curPrompt, lastError, faults, calls, attempt,
                         inflight, error>>

\* transcribeChunks(list, o) up to its first await (lines 110-121).
transcribeChunks(list, o) ==
  /\ frame' = "transcribeChunks"
  /\ ChunkLoop(list, 0, <<>>, DefaultEmpty(o.initialPrompt), <<>>)

\* The observer is told the loop index instead of the number completed.
ReportProgress_index(ev, o, path, current, total) ==
  IF o.onProgress THEN Append(ev, ProgressEvent(path, current - 1, total)) ELSE ev

\* onProgress(current, total), when an observer was passed (lines 144-146).
ReportProgress(ev, o, path, current, total) ==
  IF o.onProgress THEN Append(ev, ProgressEvent(path, current, total)) ELSE ev

\* transcribeChunks resumes after transcribeAudioFile returned: records the
\* transcript, updates the rolling prompt, reports progress, next iteration
\* (lines 134-147, 121).
transcribeChunks_resume ==
  /\ UNCHANGED sideVars
  /\ UNCHANGED <<rpc, routeVars, other>>
  /\ pc = "returned"
  /\ frame = "transcribeChunks"
  /\ ChunkLoop(chunks.value, i + 1, Append(transcripts, callValue),
               RollingPromptAfter(callValue),
               ReportProgress(events, options, curPath, i + 1, Len(chunks.value)))
  /\ UNCHANGED <<caller, entry, frame, chunks, options, callValue, response,
                 produced>>

\* ---------------------------------------------------------- transcribeAudio
\* The single-file result with a processed count of 0.
SingleResult_zero(text) ==
  [defined |-> TRUE, transcript |-> text, chunksProcessed |-> 0]

\* The value of the single-file branch (lines 175-178).
SingleResult(text) ==
  [defined |-> TRUE, transcript |-> text, chunksProcessed |-> 1]

\* transcribeAudio(audioPath, c, o) up to its first await (lines 171-182).
transcribeAudio(c, o) ==
  IF NoChunks(c)
  THEN /\ frame' = "transcribeAudio"
       /\ BeginCall(AudioPath, o.prompt, <<>>)
       /\ UNCHANGED <<i, rollingPrompt, transcripts, result>>
  ELSE transcribeChunks(c.value, o)

\* transcribeAudio resumes after transcribeAudioFile returned (lines 174-178).
transcribeAudio_resume ==
  /\ UNCHANGED sideVars
  /\ UNCHANGED <<rpc, routeVars, other>>
  /\ pc = "returned"
  /\ frame = "transcribeAudio"
  /\ result' = SingleResult(callValue)
  /\ pc' = "resolved"
  /\ UNCHANGED <<caller, entry, frame, chunks, options, i, rollingPrompt,
                 transcripts, curPath, curPrompt, attempt, lastError, callValue,
                 error, response, events, calls, inflight, produced, faults>>

\* ------------------------------------------------------------------ callers
\* Hints a caller may pass: none, the empty string, a non-empty string.
Hints == {Undefined, Some(<<>>), Some(SeedText)}

\* The error response the catch block of POST builds (route.ts lines 136-165).
ErrorResponse(e) ==
  IF e.status = 401
  THEN [status |-> 500, success |-> FALSE,
        error |-> "OpenAI API authentication failed", transcript |-> <<>>,
        chunksProcessed |-> 0]
  ELSE IF e.status = 429
  THEN [status |-> 429, success |-> FALSE, error |-> "Rate limit exceeded",
        transcript |-> <<>>, chunksProcessed |-> 0]
  ELSE [status |-> 500, success |-> FALSE, error |-> "Transcription failed",
        transcript |-> <<>>, chunksProcessed |-> 0]

\* The value of a text field of the request body.
Field(t) == [defined |-> TRUE, value |-> t]

Mp4 == <<"m", "p", "4">>

\* MAX_FILE_SIZE_MB, default 2048 (processor.ts line 257, client.ts line 11)
maxFileSizeMB == 2048

\* formData.get('video'): nothing, a file with its media type and its size (in
\* KiB: 2048 MB in bytes is past the integers of the model checker), or a
\* string.
Videos ==
  {[kind |-> "absent", type |-> <<>>, value |-> <<>>, sizeKiB |-> 0],
   [kind |-> "file", type |-> VideoSlash \o Mp4, value |-> <<>>, sizeKiB |-> 1],
   [kind |-> "file", type |-> VideoSlash \o Mp4, value |-> <<>>,
    sizeKiB |-> maxFileSizeMB * 1024 + 1],
   [kind |-> "file", type |-> <<"a", "u", "d", "i", "o", "/">> \o Mp4, value |-> <<>>, sizeKiB |-> 1],
   [kind |-> "file", type |-> <<"V", "i", "d", "e", "o", "/">> \o Mp4, value |-> <<>>, sizeKiB |-> 1],
   [kind |-> "file", type |-> <<"v", "i", "d", "e", "o">>, value |-> <<>>, sizeKiB |-> 1],
   [kind |-> "file", type |-> <<>>, value |-> <<>>, sizeKiB |-> 1],
   [kind |-> "string", type |-> <<>>, value |-> <<>>, sizeKiB |-> 0],
   [kind |-> "string", type |-> <<>>, value |-> <<"x">>, sizeKiB |-> 0]}

\* A request body with a video file and no options.
BaseForm == [NoForm EXCEPT !.video = [kind |-> "file", type |-> VideoSlash \o Mp4,
                                      value |-> <<>>, sizeKiB |-> 1]]

\* The request bodies: the base form with one field changed.
Forms ==
  {[BaseForm EXCEPT !.video = v] : v \in Videos}
    \cup {[BaseForm EXCEPT !.model = [defined |-> TRUE, value |-> m]] :
            m \in {"", "whisper-1", "gpt-4o-transcribe", "whisper-2"}}
    \cup {[BaseForm EXCEPT !.language = Field(l)] :
            l \in {<<>>, <<"e">>, <<"e", "n">>, <<"e", "n", "g">>}}
    \cup {[BaseForm EXCEPT !.prompt = Field(t)] :
            t \in {<<>>, SeedText, LongText}}
    \cup {[BaseForm EXCEPT !.chunkSeconds = Field(c)] :
            c \in {<<>>, <<"0">>, <<"2", "9", "9">>, <<"3", "0", "0">>,
                   <<"6", "0", "0">>, <<"6", "0", "1">>, <<"a", "b", "c">>}}
    \cup {[BaseForm EXCEPT !.responseFormat = [defined |-> TRUE, value |-> r]] :
            r \in {"", "srt", "xml"}}

\* NextResponse.json({success: false, error: message, ...}, {status})
Reject(status, message) ==
  [status |-> status, success |-> FALSE, error |-> message, transcript |-> <<>>,
   chunksProcessed |-> 0]

\* A request arrives (route.ts lines 24-30).
POST_receives ==
  /\ UNCHANGED sideVars
  /\ pc = "idle"
  /\ rpc = "idle"
  /\ \E f \in Forms, available \in BOOLEAN :
       /\ form' = f
       /\ ffmpegAvailable' = available
  /\ rpc' = "validate"
  /\ UNCHANGED <<runVars, response, parsed, tempDir, audioSize, fsLog, other>>

\* An error that does not come from the transcription service is thrown
\* inside the try block: the catch block answers (route.ts lines 136-165).
Thrown ==
  /\ response' = ErrorResponse(EUnclassified)
  /\ rpc' = "finally"

\* The checks before any work is done (route.ts lines 30-85).
POST_validates ==
  /\ UNCHANGED sideVars
  /\ rpc = "validate"
  /\ form' = NoForm
  /\ IF ~ffmpegAvailable
     THEN /\ response' = Reject(500, "FFmpeg not available")
          /\ rpc' = "finally"
          /\ parsed' = parsed
     ELSE IF form.video.kind = "absent"
             \/ (form.video.kind = "string" /\ form.video.value = <<>>)
     THEN /\ response' = Reject(400, "No video file provided")
          /\ rpc' = "finally"
          /\ parsed' = parsed
     ELSE IF form.video.kind = "string"
     THEN /\ Thrown
          /\ parsed' = parsed
     ELSE IF ~startsWith(form.video.type, VideoSlash)
     THEN /\ response' = Reject(400, "Invalid file type")
          /\ rpc' = "finally"
          /\ parsed' = parsed
     ELSE IF ~safeParse(rawOptions(form)).success
     THEN /\ response' = Reject(400, "Invalid request parameters")
          /\ rpc' = "finally"
          /\ parsed' = parsed
     ELSE /\ parsed' = safeParse(rawOptions(form)).data
          /\ rpc' = "createTempDir"
          /\ response' = response
  /\ UNCHANGED <<runVars, ffmpegAvailable, tempDir, audioSize, fsLog, other>>

\* The operation op of the file system or of ffmpeg, and whether it succeeded.
Op(op, ok) == [op |-> op, ok |-> ok]

\* path.join(config.tempDir, `transcription_${timestamp}_${random}`)
TempName == "transcription_t_r"

\* tempDir = await createTempDir() (route.ts line 88, processor.ts lines 82-90)
POST_createTempDir ==
  /\ UNCHANGED sideVars
  /\ rpc = "createTempDir"
  /\ \E ok \in BOOLEAN :
       /\ fsLog' = Append(fsLog, Op("mkdir", ok))
       /\ IF ok
          THEN /\ tempDir' = [defined |-> TRUE, value |-> TempName]
               /\ rpc' = "saveUploadedFile"
               /\ response' = response
          ELSE /\ Thrown
               /\ tempDir' = tempDir
  /\ UNCHANGED <<runVars, ffmpegAvailable, form, parsed, audioSize, other>>

\* await saveUploadedFile(video, tempDir) (route.ts line 91, processor.ts
\* lines 223-234)
POST_saveUploadedFile ==
  /\ UNCHANGED sideVars
  /\ rpc = "saveUploadedFile"
  /\ \E ok \in BOOLEAN :
       /\ fsLog' = Append(fsLog, Op("writeFile", ok))
       /\ IF ok
          THEN /\ rpc' = "processVideo"
               /\ response' = response
          ELSE Thrown
  /\ UNCHANGED <<runVars, ffmpegAvailable, form, parsed, tempDir, audioSize, other>>

\* The sizes of the extracted audio: at the upload limit and one byte above.
Sizes == {MAX_UPLOAD_BYTES, MAX_UPLOAD_BYTES + 1}

\* An audio file of any size is sent whole.
NeedsChunking_never(size) == FALSE

\* The negation of extractionResult.size <= MAX_UPLOAD_BYTES (processor.ts
\* line 187)
NeedsChunking(size) == ~(size <= MAX_UPLOAD_BYTES)

\* processVideo rejects (processor.ts lines 177-206): extractAudio fails, or
\* the audio is above the limit and creating the chunk directory or chunkAudio
\* fails.
POST_processVideo_rejects ==
  /\ UNCHANGED sideVars
  /\ rpc = "processVideo"
  /\ \/ /\ fsLog' = Append(fsLog, Op("extractAudio", FALSE))
        /\ audioSize' = audioSize
     \/ \E size \in Sizes, op \in {"mkdir chunks", "chunkAudio"} :
          /\ NeedsChunking(size)
          /\ audioSize' = size
          /\ fsLog' = fsLog \o
               (IF op = "chunkAudio"
                THEN <<Op("extractAudio", TRUE), Op("mkdir chunks", TRUE),
                       Op("chunkAudio", FALSE)>>
                ELSE <<Op("extractAudio", TRUE), Op("mkdir chunks", FALSE)>>)
  /\ Thrown
  /\ UNCHANGED <<runVars, ffmpegAvailable, form, parsed, tempDir, other>>

\* processVideo resolves (processor.ts lines 177-206) and POST calls
\* transcribeAudio with its outcome (no chunk list, or the chunk list of
\* chunkAudio, which has a chunk for every segment ffmpeg wrote, at least one)
\* and the validated options (route.ts lines 94-112).
POST_transcribe ==
  /\ UNCHANGED sideVars
  /\ pc = "idle"
  /\ rpc = "processVideo"
  /\ \E size \in Sizes,
        c \in {Undefined} \cup {Some(ChunkList(n)) : n \in 1..MaxChunks} :
       /\ c.defined <=> NeedsChunking(size)
       /\ audioSize' = size
       /\ fsLog' = fsLog \o
            (IF c.defined
             THEN <<Op("extractAudio", TRUE), Op("mkdir chunks", TRUE),
                    Op("chunkAudio", TRUE)>>
             ELSE <<Op("extractAudio", TRUE)>>)
       /\ caller' = "route"
       /\ entry' = "transcribeAudio"
       /\ chunks' = c
       /\ options' = [prompt |-> parsed.prompt, initialPrompt |-> Undefined,
                      onProgress |-> FALSE]
       /\ transcribeAudio(c, options')
  /\ rpc' = "pipeline"
  /\ UNCHANGED <<callValue, response, produced>>
  /\ UNCHANGED <<ffmpegAvailable, form, parsed, tempDir, other>>

\* A finally block that cleans up only behind a success response.
POST_finally_onSuccess ==
  /\ UNCHANGED sideVars
  /\ rpc = "finally"
  /\ IF tempDir.defined /\ response.success
     THEN \E ok \in BOOLEAN : fsLog' = Append(fsLog, Op("rm", ok))
     ELSE fsLog' = fsLog
  /\ rpc' = "done"
  /\ UNCHANGED <<runVars, response, ffmpegAvailable, form, parsed, tempDir,
                 audioSize, other>>

\* The finally block (route.ts lines 166-171) with cleanupTempDir (processor.ts
\* lines 211-218), after which the response is returned.
POST_finally ==
  /\ UNCHANGED sideVars
  /\ rpc = "finally"
  /\ IF tempDir.defined
     THEN \E ok \in BOOLEAN : fsLog' = Append(fsLog, Op("rm", ok))
     ELSE fsLog' = fsLog
  /\ rpc' = "done"
  /\ UNCHANGED <<runVars, response, ffmpegAvailable, form, parsed, tempDir,
                 audioSize, other>>

\* Another module calls transcribeAudio without chunks: no list, or an empty
\* one (the lists of chunkAudio arrive through POST).
Call_transcribeAudio ==
  /\ UNCHANGED sideVars
  /\ pc = "idle"
  /\ rpc = "idle"
  /\ UNCHANGED <<rpc, routeVars, other>>
  /\ \E c \in {Undefined, Some(ChunkList(0))}, p \in Hints, cb \in BOOLEAN :
       /\ caller' = "direct"
       /\ entry' = "transcribeAudio"
       /\ chunks' = c
       /\ options' = [prompt |-> p, initialPrompt |-> Undefined, onProgress |-> cb]
       /\ transcribeAudio(c, options')
  /\ UNCHANGED <<callValue, response, produced>>

\* Another module calls transcribeChunks, with an observer (the chunked runs
\* without one are those of POST).
Call_transcribeChunks ==
  /\ UNCHANGED sideVars
  /\ pc = "idle"
  /\ rpc = "idle"
  /\ UNCHANGED <<rpc, routeVars, other>>
  /\ \E n \in 0..MaxChunks, p \in Hints :
       /\ caller' = "direct"
       /\ entry' = "transcribeChunks"
       /\ chunks' = Some(ChunkList(n))
       /\ options' = [prompt |-> Undefined, initialPrompt |-> p, onProgress |-> TRUE]
       /\ transcribeChunks(chunks'.value, options')
  /\ UNCHANGED <<callValue, response, produced>>

\* The success response of POST (route.ts lines 114-135).
POST_returns ==
  /\ UNCHANGED sideVars
  /\ rpc' = "finally"
  /\ UNCHANGED <<routeVars, other>>
  /\ pc = "resolved"
  /\ caller = "route"
  /\ response' = [status |-> 200, success |-> TRUE, error |-> "",
                  transcript |-> result.transcript,
                  chunksProcessed |-> result.chunksProcessed]
  /\ pc' = "responded"
  /\ UNCHANGED <<caller, entry, frame, chunks, options, i, rollingPrompt,
                 transcripts, curPath, curPrompt, attempt, lastError, callValue,
                 result, error, events, calls, inflight, produced, faults>>

\* POST catches the rejection of transcribeAudio.
POST_catches ==
  /\ UNCHANGED sideVars
  /\ rpc' = "finally"
  /\ UNCHANGED <<routeVars, other>>
  /\ pc = "rejected"
  /\ caller = "route"
  /\ response' = ErrorResponse(error)
  /\ pc' = "responded"
  /\ UNCHANGED <<caller, entry, frame, chunks, options, i, rollingPrompt,
                 transcripts, curPath, curPrompt, attempt, lastError, callValue,
                 result, error, events, calls, inflight, produced, faults>>

Next ==
  \/ POST_receives
  \/ POST_validates
  \/ POST_createTempDir
  \/ POST_saveUploadedFile
  \/ POST_processVideo_rejects
  \/ POST_transcribe
  \/ Call_transcribeAudio
  \/ Call_transcribeChunks
  \/ CreateResolves
  \/ CreateRejects
  \/ SleepElapses
  \/ transcribeChunks_resume
  \/ transcribeAudio_resume
  \/ POST_returns
  \/ POST_catches
  \/ POST_finally

Spec == Init /\ [][Next]_vars

\* ------------------------------------------------------- two invocations
\* The locals of the invocation that is running.
Self ==
  [pc |-> pc,
   caller |-> caller,
   entry |-> entry,
   frame |-> frame,
   chunks |-> chunks,
   options |-> options,
   i |-> i,
   rollingPrompt |-> rollingPrompt,
   transcripts |-> transcripts,
   curPath |-> curPath,
   curPrompt |-> curPrompt,
   attempt |-> attempt,
   lastError |-> lastError,
   callValue |-> callValue,
   result |-> result,
   error |-> error,
   response |-> response,
   events |-> events,
   calls |-> calls,
   inflight |-> inflight,
   produced |-> produced,
   faults |-> faults]

\* The event loop leaves the running invocation at an await and continues
\* the other one, with transcripts an array the two invocations share.
Switch_sharedAccumulator ==
  /\ UNCHANGED sideVars
  /\ other' = Self
  /\ pc' = other.pc
  /\ caller' = other.caller
  /\ entry' = other.entry
  /\ frame' = other.frame
  /\ chunks' = other.chunks
  /\ options' = other.options
  /\ i' = other.i
  /\ rollingPrompt' = other.rollingPrompt
  /\ transcripts' = transcripts
  /\ curPath' = other.curPath
  /\ curPrompt' = other.curPrompt
  /\ attempt' = other.attempt
  /\ lastError' = other.lastError
  /\ callValue' = other.callValue
  /\ result' = other.result
  /\ error' = other.error
  /\ response' = other.response
  /\ events' = other.events
  /\ calls' = other.calls
  /\ inflight' = other.inflight
  /\ produced' = other.produced
  /\ faults' = other.faults
  /\ UNCHANGED <<rpc, routeVars>>

\* The event loop leaves the running invocation at an await and continues
\* the other one: each invocation has its own locals (lines 48-51, 110-119).
Switch ==
  /\ UNCHANGED sideVars
  /\ other' = Self
  /\ pc' = other.pc
  /\ caller' = other.caller
  /\ entry' = other.entry
  /\ frame' = other.frame
  /\ chunks' = other.chunks
  /\ options' = other.options
  /\ i' = other.i
  /\ rollingPrompt' = other.rollingPrompt
  /\ transcripts' = other.transcripts
  /\ curPath' = other.curPath
  /\ curPrompt' = other.curPrompt
  /\ attempt' = other.attempt
  /\ lastError' = other.lastError
  /\ callValue' = other.callValue
  /\ result' = other.result
  /\ error' = other.error
  /\ response' = other.response
  /\ events' = other.events
  /\ calls' = other.calls
  /\ inflight' = other.inflight
  /\ produced' = other.produced
  /\ faults' = other.faults
  /\ UNCHANGED <<rpc, routeVars>>

\* The inputs of the paired runs: an observer is passed, the service answers
\* with the empty or the short text, and a call meets at most one fault, a
\* rate limit or an authentication failure.
PairInputs ==
  /\ options.onProgress \/ pc = "idle"
  /\ \A k \in DOMAIN produced : produced[k].text \in {EmptyText, ShortText}
  /\ faults \in {<<>>, <<E429>>, <<E401>>}

PairNext ==
  \/ Call_transcribeAudio /\ PairInputs'
  \/ Call_transcribeChunks /\ PairInputs'
  \/ CreateResolves /\ PairInputs'
  \/ CreateRejects /\ PairInputs'
  \/ SleepElapses
  \/ transcribeChunks_resume
  \/ transcribeAudio_resume
  \/ Switch

SpecPair == Init /\ [][PairNext]_vars

\* --------------------------------------------------- getRetryDelay by itself
\* The retry loop entered at any attempt number.
DelayInit ==
  /\ attempt \in 0..MaxAttempt
  /\ pc = "await"
  /\ caller = "direct"
  /\ entry = "transcribeAudio"
  /\ frame = "transcribeAudio"
  /\ chunks = Undefined
  /\ options = NoOptions
  /\ i = 0
  /\ rollingPrompt = <<>>
  /\ transcripts = <<>>
  /\ curPath = AudioPath
  /\ curPrompt = Undefined
  /\ lastError = NoError
  /\ callValue = <<>>
  /\ result = NoResult
  /\ error = NoError
  /\ response = NoResponse
  /\ events = <<>>
  /\ calls = <<[path |-> AudioPath, prompt |-> Undefined]>>
  /\ inflight = {}
  /\ produced = <<>>
  /\ faults = <<>>
  /\ InitRoute
  /\ other = IdleInvocation
  /\ InitSide

\* const delay = getRetryDelay(attempt); await sleep(delay); continue
\* (lines 70-72, 80-82), for the attempt numbers up to MaxAttempt.
DelayStep ==
  /\ UNCHANGED sideVars
  /\ attempt <= MaxAttempt
  /\ events' = Append(events, SleepEvent(curPath, attempt, getRetryDelay(attempt)))
  /\ attempt' = attempt + 1
  /\ UNCHANGED <<pc, caller, entry, frame, chunks, options, i, rollingPrompt,
                 transcripts, curPath, curPrompt, lastError, callValue, result,
                 error, response, calls, inflight, produced, faults, rpc,
                 routeVars, other>>

DelayNext == DelayStep

SpecDelay == DelayInit /\ [][DelayNext]_vars

\* Every outstanding request is answered, every backoff timer fires and every
\* continuation that is ready to run is run by the event loop.
Fairness ==
  /\ WF_vars(CreateResolves \/ CreateRejects)
  /\ WF_vars(SleepElapses)
  /\ WF_vars(transcribeChunks_resume)
  /\ WF_vars(transcribeAudio_resume)
  /\ WF_vars(POST_returns)
  /\ WF_vars(POST_catches)

FairSpec == Spec /\ Fairness


\* ------------------------------------------------------------ observations
\* Number of requests sent for path.
AttemptsOf(path) ==
  Cardinality({k \in DOMAIN events :
                 events[k].type = "request" /\ events[k].path = path})

\* The backoff delays slept for path, in order.
DelaysOf(path) ==
  LET s == SelectSeq(events, LAMBDA e : e.type = "sleep" /\ e.path = path)
  IN  [k \in 1..Len(s) |-> s[k].ms]

\* The service returned a text for path.
HasOutput(path) == \E k \in DOMAIN produced : produced[k].path = path

\* The text the service returned for path.
OutputOf(path) ==
  produced[CHOOSE k \in DOMAIN produced : produced[k].path = path].text

\* The hint a request carries; a request without prompt carries the empty hint.
HintText(o) == IF o.defined THEN o.value ELSE <<>>

\* The current call has ended without any attempt succeeding.
CallFailed ==
  /\ pc \notin {"idle", "await", "sleep"}
  /\ faults # <<>>
  /\ ~HasOutput(curPath)

\* The claim's classes of failure signals.
RateLimitSignal(e) == e.status = 429

TransientSignal(e) ==
  e.status >= 500 \/ e.code = "ECONNRESET" \/ e.code = "ETIMEDOUT"

\* ------------------------------------------------------------------- claims
RECURSIVE ExpectedTranscript(_)
ExpectedTranscript(n) ==
  IF n = 1 THEN OutputOf(ChunkPath(0))
  ELSE ExpectedTranscript(n - 1) \o <<"\n", "\n">> \o OutputOf(ChunkPath(n - 1))

\* C1: when a chunked invocation over a non-empty list resolves, every segment
\* has exactly one output, the transcript is the outputs in segment order with
\* exactly "\n\n" between consecutive ones, and the processed count is the
\* number of segments, whatever retries the calls needed.
C1_TranscriptJoinsOutputs ==
  (result.defined /\ frame = "transcribeChunks" /\ Len(chunks.value) > 0) =>
    /\ Len(produced) = Len(chunks.value)
    /\ \A k \in 1..Len(chunks.value) : produced[k].path = chunks.value[k].path
    /\ result.transcript = ExpectedTranscript(Len(chunks.value))
    /\ result.chunksProcessed = Len(chunks.value)

\* C1 witness: two segments resolved after at least one retry, the first
\* output long and the second short.
C1_Witness ==
  /\ result.defined
  /\ frame = "transcribeChunks"
  /\ Len(chunks.value) = 2
  /\ AttemptsOf(ChunkPath(0)) > 1
  /\ OutputOf(ChunkPath(0)) = LongText
  /\ OutputOf(ChunkPath(1)) = ShortText

\* C2: every request for a segment i > 0 carries as hint the last 1500
\* characters of segment i-1's output when that is longer than 1500, and the
\* whole output otherwise.
C2_HintIsTailOfPrevious ==
  \A k \in DOMAIN events :
    (/\ events[k].type = "request"
     /\ frame = "transcribeChunks"
     /\ events[k].path.n > 0) =>
      /\ HasOutput(ChunkPath(events[k].path.n - 1))
      /\ LET prev == OutputOf(ChunkPath(events[k].path.n - 1))
             hint == HintText(events[k].prompt)
         IN  IF Len(prev) > 1500
             THEN Len(hint) = 1500 /\ hint = SubSeq(prev, Len(prev) - 1499, Len(prev))
             ELSE hint = prev

\* C2 witness: a request for segment 1 after segment 0 returned the long text.
C2_Witness ==
  \E k \in DOMAIN events :
    /\ events[k].type = "request"
    /\ frame = "transcribeChunks"
    /\ events[k].path = ChunkPath(1)
    /\ HasOutput(ChunkPath(0))
    /\ OutputOf(ChunkPath(0)) = LongText
    /\ events[k].prompt.defined

\* C3: when transcribeAudio is called with a non-empty chunk list and a
\* non-empty prompt option, every request for segment 0 carries that prompt;
\* the prompt is omitted only when none or an empty one was supplied.
C3_SeedHintReachesSegment0 ==
  (entry = "transcribeAudio" /\ frame = "transcribeChunks") =>
    \A k \in DOMAIN events :
      (events[k].type = "request" /\ events[k].path = ChunkPath(0)) =>
        events[k].prompt =
          (IF options.prompt.defined /\ options.prompt.value # <<>>
           THEN options.prompt ELSE Undefined)

\* C4: transcribeAudio without a chunk list makes exactly one
\* transcribeAudioFile call, for the whole audio file, and resolves with that
\* call's output and a processed count of 1.
C4_NoChunksOneCall ==
  (entry = "transcribeAudio" /\ ~chunks.defined /\ pc # "idle") =>
    /\ Len(calls) = 1
    /\ calls[1].path = AudioPath
    /\ \A k \in DOMAIN events :
         events[k].type = "request" => events[k].path = AudioPath
    /\ result.defined =>
         /\ Len(produced) = 1
         /\ produced[1].path = AudioPath
         /\ result.transcript = produced[1].text
         /\ result.chunksProcessed = 1

\* C4 witness: a single-file invocation resolved after a retry.
C4_Witness ==
  /\ entry = "transcribeAudio"
  /\ ~chunks.defined
  /\ result.defined
  /\ faults # <<>>
  /\ result.transcript = ShortText

\* C5: at most one request is outstanding, and while the request of segment j
\* is outstanding it is the latest event, the outputs of segments 0..j-1 (and
\* no others) have been returned and recorded in order.
C5_Sequential ==
  /\ Cardinality(inflight) <= 1
  /\ \A id \in inflight :
       /\ events[id].type = "request"
       /\ id = Len(events)
       /\ frame = "transcribeChunks" =>
            LET j == events[id].path.n
            IN  /\ Len(transcripts) = j
                /\ Len(produced) = j
                /\ \A m \in 1..j :
                     /\ produced[m].path = ChunkPath(m - 1)
                     /\ transcripts[m] = produced[m].text

\* C5 witness: a retry of segment 1 is outstanding.
C5_Witness ==
  \E id \in inflight :
    /\ frame = "transcribeChunks"
    /\ events[id].path = ChunkPath(1)
    /\ events[id].attempt = 1

\* C6: a call that was rate limited on attempts 1 and 2 and succeeded on
\* attempt 3 returns the text the service answered, after three requests and
\* exactly two backoff delays, 1000 ms and then 2000 ms.
C6_TwoRateLimitsThenSuccess ==
  (pc = "returned" /\ faults = <<E429, E429>>) =>
    /\ produced[Len(produced)].path = curPath
    /\ callValue = produced[Len(produced)].text
    /\ AttemptsOf(curPath) = 3
    /\ DelaysOf(curPath) = <<1000, 2000>>

\* C6 witness: such a call returned the long text.
C6_Witness ==
  /\ pc = "returned"
  /\ faults = <<E429, E429>>
  /\ callValue = LongText

\* C7: a call whose first attempt fails with a signal that is neither rate
\* limit nor transient makes one attempt, sleeps no backoff and rejects with
\* that failure.
C7_NonRetriableFailsAtOnce ==
  (faults # <<>> /\ ~RateLimitSignal(faults[1]) /\ ~TransientSignal(faults[1])) =>
    /\ pc \in {"rejected", "responded"}
    /\ Len(faults) = 1
    /\ error = faults[1]
    /\ AttemptsOf(curPath) = 1
    /\ DelaysOf(curPath) = <<>>

\* C7 witness: segment 1's first attempt failed with 401.
C7_Witness ==
  /\ faults = <<E401>>
  /\ pc = "rejected"
  /\ curPath = ChunkPath(1)

\* C8: a call rate limited on all 3 attempts has made exactly 3 requests, is
\* rejected with an error of status 429, and POST answers it with status 429
\* and error 'Rate limit exceeded'.
C8_RateLimitExhausted ==
  (Len(faults) >= 3 /\ \A k \in 1..3 : faults[k] = E429) =>
    /\ Len(faults) = 3
    /\ pc \in {"rejected", "responded"}
    /\ AttemptsOf(curPath) = 3
    /\ error.status = 429
    /\ pc = "responded" =>
         /\ response.status = 429
         /\ response.error = "Rate limit exceeded"
         /\ ~response.success

\* C8 witness: POST has answered such a call.
C8_Witness ==
  /\ faults = <<E429, E429, E429>>
  /\ pc = "responded"
  /\ caller = "route"

\* C9: when the call for segment k has failed, the chunked invocation is
\* rejected with the last failure, has no result (POST returns no transcript),
\* has recorded exactly the outputs of segments 0..k-1 and has sent no request
\* for a segment after k.
C9_AllOrNothing ==
  (frame = "transcribeChunks" /\ CallFailed) =>
    /\ pc \in {"rejected", "responded"}
    /\ error = faults[Len(faults)]
    /\ ~result.defined
    /\ curPath = ChunkPath(i)
    /\ Len(transcripts) = i
    /\ Len(calls) = i + 1
    /\ \A k \in DOMAIN events : events[k].path.n <= i
    /\ inflight = {}
    /\ pc = "responded" =>
         /\ ~response.success
         /\ response.transcript = <<>>

\* C9 witness: segment 1 failed after segment 0 returned a non-empty text.
C9_Witness ==
  /\ frame = "transcribeChunks"
  /\ CallFailed
  /\ i = 1
  /\ transcripts = <<ShortText>>
  /\ pc = "responded"

\* C10: while all failures of a call are rate-limit or transient ones, in any
\* mix, the call follows the rate-limit schedule: delays 1000 then 2000 ms,
\* at most 3 requests, no rejection before the third failure and rejection
\* with the third.
C10_TransientRetriedLikeRateLimit ==
  (pc # "idle" /\ \A k \in DOMAIN faults :
                    RateLimitSignal(faults[k]) \/ TransientSignal(faults[k])) =>
    /\ Len(faults) <= 3
    /\ AttemptsOf(curPath) <= 3
    /\ DelaysOf(curPath) = SubSeq(<<1000, 2000>>, 1, Min(Len(faults), 2))
    /\ Len(faults) < 3 => error = NoError
    /\ Len(faults) = 3 =>
         /\ pc \in {"rejected", "responded"}
         /\ error = faults[3]

\* C10 witness: a call failed with a connection reset, a rate limit and a
\* timeout.
C10_Witness ==
  /\ faults = <<EConnReset, E429, ETimedOut>>
  /\ pc = "rejected"


\* Positions in events of the onProgress calls, of the requests for path, and
\* of the requests for segment n.
ProgressAt == {k \in DOMAIN events : events[k].type = "progress"}

RequestsAt(path) ==
  {k \in DOMAIN events : events[k].type = "request" /\ events[k].path = path}

AllRequestsAt == {k \in DOMAIN events : events[k].type = "request"}

\* C11: with an observer, a chunked invocation over N segments has called it
\* once per recorded segment, with (1, N), (2, N), ... in this order; the call
\* (k, N) comes after every request for segments 0..k-1 and before every
\* request for segment k and later; a failed segment gets no call.  Without
\* an observer there is no call.
C11_ProgressPerSegment ==
  /\ ~options.onProgress => ProgressAt = {}
  /\ frame # "transcribeChunks" => ProgressAt = {}
  /\ (options.onProgress /\ frame = "transcribeChunks") =>
       /\ Cardinality(ProgressAt) = Len(transcripts)
       /\ \A k \in ProgressAt :
            /\ events[k].total = Len(chunks.value)
            /\ events[k].current = Cardinality({m \in ProgressAt : m <= k})
            /\ \A r \in AllRequestsAt :
                 (r < k) <=> (events[r].path.n < events[k].current)
       /\ CallFailed => \A k \in ProgressAt : events[k].current <= i
       /\ result.defined => Cardinality(ProgressAt) = Len(chunks.value)

\* C11 witness: two segments resolved with an observer after a retry.
C11_Witness ==
  /\ options.onProgress
  /\ frame = "transcribeChunks"
  /\ result.defined
  /\ Len(chunks.value) = 2
  /\ AttemptsOf(ChunkPath(1)) = 2
  /\ Cardinality(ProgressAt) = 2

\* C17: a call never has more than 3 requests (its attempt is 0, 1 or 2), so
\* an invocation over N segments sends at most 3 * N requests, and one
\* without chunk list at most 3.
C17_AttemptsBounded ==
  /\ attempt \in 0..2
  /\ \A k \in DOMAIN calls : AttemptsOf(calls[k].path) <= 3
  /\ frame = "transcribeChunks" =>
       Cardinality(AllRequestsAt) <= 3 * Len(chunks.value)
  /\ frame = "transcribeAudio" => Cardinality(AllRequestsAt) <= 3

\* C17 witness: both of two segments used all three attempts.
C17_Witness ==
  /\ frame = "transcribeChunks"
  /\ Len(chunks.value) = 2
  /\ Cardinality(AllRequestsAt) = 6

\* C19: the requests of every call are attempts 0, 1, 2 in this order, at
\* most 3, and its backoff delays start again at 1000 ms (then 2000 ms),
\* whatever earlier calls of the invocation used.
C19_BudgetPerCall ==
  \A c \in DOMAIN calls :
    LET path == calls[c].path
    IN  /\ AttemptsOf(path) \in 1..3
        /\ \A k \in RequestsAt(path) :
             events[k].attempt = Cardinality({m \in RequestsAt(path) : m < k})
        /\ Len(DelaysOf(path)) <= 2
        /\ DelaysOf(path) = SubSeq(<<1000, 2000>>, 1, Len(DelaysOf(path)))

\* C19 witness: segment 0 succeeded on its third attempt and segment 1 has
\* again made three attempts with delays 1000 and 2000 ms.
C19_Witness ==
  /\ frame = "transcribeChunks"
  /\ HasOutput(ChunkPath(0))
  /\ AttemptsOf(ChunkPath(0)) = 3
  /\ AttemptsOf(ChunkPath(1)) = 3
  /\ DelaysOf(ChunkPath(1)) = <<1000, 2000>>

CallSettled == pc \in {"returned", "resolved", "rejected", "responded"}

\* The invocation has completed: POST has built its response, or the promise
\* a direct caller holds is settled.
InvocationDone ==
  \/ caller = "route" /\ pc = "responded"
  \/ caller = "direct" /\ pc \in {"resolved", "rejected"}

\* C18: when every request is answered and every backoff elapses, a call that
\* is attempting or backing off eventually succeeds or fails, and a started
\* invocation eventually completes with a result or a failure.
C18_Terminates ==
  /\ (pc \in {"await", "sleep"}) ~> CallSettled
  /\ (pc # "idle") ~> InvocationDone

\* C18 witness: POST has answered an invocation in which both of two segments
\* needed all three attempts.
C18_Witness ==
  /\ caller = "route"
  /\ pc = "responded"
  /\ Len(chunks.value) = 2
  /\ Cardinality(AllRequestsAt) = 6


\* ------------------------------------------------------------------- route
\* Positions in fsLog of the cleanups of the temp directory.
CleanupsAt == {k \in DOMAIN fsLog : fsLog[k].op = "rm"}

\* Positions in fsLog of the operations that failed, the cleanup apart.
FailuresAt == {k \in DOMAIN fsLog : ~fsLog[k].ok /\ fsLog[k].op # "rm"}

\* The response POST built before its finally block ran, read off the outcome
\* of the pipeline and of the file operations.
BuiltResponse ==
  IF pc = "responded" /\ result.defined
  THEN [status |-> 200, success |-> TRUE, error |-> "",
        transcript |-> result.transcript,
        chunksProcessed |-> result.chunksProcessed]
  ELSE IF pc = "responded" /\ error.status = 401
  THEN Reject(500, "OpenAI API authentication failed")
  ELSE IF pc = "responded" /\ error.status = 429
  THEN Reject(429, "Rate limit exceeded")
  ELSE Reject(500, "Transcription failed")

\* C13: once the temp directory of a request exists, its cleanup is attempted
\* exactly once, as the last operation before the response is returned, on
\* the success path and on the failure paths (save, extraction, chunking,
\* transcription); whether the cleanup succeeds or fails, the response returned
\* is the one built before it.
C13_CleanupExactlyOnce ==
  /\ Cardinality(CleanupsAt) <= 1
  /\ rpc # "done" => CleanupsAt = {}
  /\ ~tempDir.defined => CleanupsAt = {}
  /\ (rpc = "done" /\ tempDir.defined) =>
       /\ CleanupsAt = {Len(fsLog)}
       /\ response = BuiltResponse

\* C13 witness: a request whose transcription failed with a rate limit and
\* whose cleanup failed has returned the rate-limit response.
C13_Witness ==
  /\ rpc = "done"
  /\ tempDir.defined
  /\ pc = "responded"
  /\ error.status = 429
  /\ fsLog[Len(fsLog)] = Op("rm", FALSE)
  /\ response.status = 429

Decimal3(n) ==
  LET d(k) == CHOOSE c \in Digits : DigitValue(c) = k
  IN <<d(n \div 100), d((n \div 10) % 10), d(n % 10)>>

\* The request has no video field.
NoVideoField ==
  form.video.kind = "absent" \/ (form.video.kind = "string" /\ form.video.value = <<>>)

\* The request's file is not of a video type.
NotVideoType ==
  /\ form.video.kind = "file"
  /\ \/ Len(form.video.type) < 6
     \/ \E k \in 1..6 : form.video.type[k] # VideoSlash[k]

\* A non-empty option of the request is outside the schema.
OptionsOutsideSchema ==
  \/ form.model.defined /\ form.model.value \notin {"", "whisper-1", "gpt-4o-transcribe"}
  \/ form.language.defined /\ Len(form.language.value) \notin {0, 2}
  \/ form.prompt.defined /\ Len(form.prompt.value) > 1500
  \/ /\ form.chunkSeconds.defined
     /\ form.chunkSeconds.value # <<>>
     /\ ~\E n \in 300..600 : form.chunkSeconds.value = Decimal3(n)

\* Nothing was done for the request: no temp directory, no file or ffmpeg
\* operation, no transcription call.
NothingDone(dir, log, ev, cs) == ~dir.defined /\ log = <<>> /\ ev = <<>> /\ cs = <<>>

EarlyErrors ==
  {"FFmpeg not available", "No video file provided", "Invalid file type",
   "Invalid request parameters"}

\* C15: the validation step answers a request with {success: false} and
\* status 500 when ffmpeg is unavailable, and otherwise with status 400 when
\* the video field is missing, the file is not of a video type or an option is
\* outside the schema; a request answered this way never gets a temp
\* directory, an extraction or a transcription call.
C15_EarlyReject ==
  /\ [][(rpc = "validate" /\ rpc' # "validate") =>
          /\ ~ffmpegAvailable =>
               /\ response' = Reject(500, "FFmpeg not available")
               /\ rpc' = "finally"
          /\ (ffmpegAvailable /\ (NoVideoField \/ NotVideoType \/ OptionsOutsideSchema)) =>
               /\ response'.status = 400
               /\ ~response'.success
               /\ response'.error \in EarlyErrors
               /\ rpc' = "finally"
          /\ NothingDone(tempDir', fsLog', events', calls')]_vars
  /\ [](response.error \in EarlyErrors =>
          /\ ~response.success
          /\ rpc \in {"finally", "done"}
          /\ NothingDone(tempDir, fsLog, events, calls))

\* C15 witness: a request with an option outside the schema was answered 400
\* and nothing was done for it.
C15_Witness ==
  /\ rpc = "done"
  /\ response = Reject(400, "Invalid request parameters")
  /\ NothingDone(tempDir, fsLog, events, calls)


\* ----------------------------------------------------------- backoff delay
\* Positions in events of the backoff delays.
SleepsAt == {k \in DOMAIN events : events[k].type = "sleep"}

\* C16: the backoff delay after failed attempt n is min(1000 * 2^n, 10000) ms,
\* never more than 10000 ms, and the delay after attempt n + 1 is at least the
\* delay after attempt n.
C16_DelayFormula ==
  /\ \A k \in SleepsAt :
       LET n == events[k].attempt
           full == 1000 * 2^n
       IN /\ events[k].ms = IF full < 10000 THEN full ELSE 10000
          /\ events[k].ms <= 10000
  /\ \A k \in SleepsAt, l \in SleepsAt :
       events[k].attempt <= events[l].attempt => events[k].ms <= events[l].ms

\* C16 witness: the delays after attempts 0 to 4 have been computed, the last
\* one at the cap.
C16_Witness ==
  /\ Len(events) >= 5
  /\ events[1].attempt = 0
  /\ events[1].ms = 1000
  /\ events[4].ms = 8000
  /\ events[5].attempt = 4
  /\ events[5].ms = 10000


\* -------------------------------------------------------- two invocations
\* Positions in the events of invocation v of its requests.
RequestsOf(v) == {k \in DOMAIN v.events : v.events[k].type = "request"}

\* The text the service returned to invocation v for its n-th segment.
OutputAt(v, n) == v.produced[n].text

\* The hint a run of v alone sends with a request for segment n (from 0).
HintAlone(v, n) ==
  IF v.frame = "transcribeAudio" THEN v.options.prompt
  ELSE LET t == IF n = 0 THEN HintText(v.options.initialPrompt)
                 ELSE OutputAt(v, n)
           tail == IF Len(t) <= 1500 THEN t ELSE SubSeq(t, Len(t) - 1499, Len(t))
       IN IF tail = <<>> THEN Undefined ELSE Some(tail)

\* The outputs 1..n of invocation v, joined by a blank line.
RECURSIVE JoinedOutputs(_, _)
JoinedOutputs(v, n) ==
  IF n = 0 THEN <<>>
  ELSE IF n = 1 THEN OutputAt(v, 1)
  ELSE JoinedOutputs(v, n - 1) \o <<"\n", "\n">> \o OutputAt(v, n)

\* What invocation v did is what it does when it runs alone: its requests go
\* through its own segments in order, each with the hint made from its own
\* previous output and with attempt numbers counted from 0 for each segment,
\* its accumulator holds its own outputs, and its result is their join.
RunsAsAlone(v) ==
  /\ \A k \in RequestsOf(v) :
       LET e == v.events[k]
       IN /\ IF v.frame = "transcribeAudio"
             THEN e.path = AudioPath
             ELSE /\ e.path.n < Len(v.chunks.value)
                  /\ e.path = v.chunks.value[e.path.n + 1].path
          /\ e.prompt = HintAlone(v, e.path.n)
          /\ e.attempt =
               Cardinality({l \in RequestsOf(v) : l < k /\ v.events[l].path = e.path})
          /\ \A l \in RequestsOf(v) : l < k => v.events[l].path.n <= e.path.n
  /\ \A m \in DOMAIN v.produced :
       v.produced[m].path =
         IF v.frame = "transcribeAudio" THEN AudioPath ELSE ChunkPath(m - 1)
  /\ v.frame = "transcribeChunks" =>
       /\ Len(v.transcripts) <= Len(v.produced)
       /\ \A m \in DOMAIN v.transcripts : v.transcripts[m] = OutputAt(v, m)
       /\ v.pc = "resolved" =>
            /\ v.result.transcript = JoinedOutputs(v, Len(v.chunks.value))
            /\ v.result.chunksProcessed = Len(v.chunks.value)
            /\ Len(v.produced) = Len(v.chunks.value)
  /\ (v.frame = "transcribeAudio" /\ v.pc = "resolved") =>
       /\ v.result.transcript = OutputAt(v, 1)
       /\ Len(v.produced) = 1

\* C12: in every interleaving of two pipeline invocations, each of the two
\* sends the requests (segment order, hints, attempt numbers) and returns the
\* result of a run alone on its own segments, options and service answers.
C12_InvocationsIndependent == RunsAsAlone(Self) /\ RunsAsAlone(other)

\* C12 witness: two chunked invocations are under way at once, each past its
\* first segment with a different output, one awaiting its second request and
\* the other backing off.
C12_Witness ==
  /\ pc = "await"
  /\ other.pc = "sleep"
  /\ frame = "transcribeChunks"
  /\ other.frame = "transcribeChunks"
  /\ i = 1
  /\ other.i = 1
  /\ rollingPrompt = ShortText
  /\ other.rollingPrompt = <<>>


\* ------------------------------------------------------ backoff and errors
\* C21: a backoff delay occurs only between a failed attempt with a retriable
\* signal and the next attempt of the same call: every delay directly follows
\* a request of its call and is directly followed by the next request of that
\* call, a call that has ended made one delay less than attempts, and nothing
\* ends, fails or moves to the next segment out of a delay.
C21_DelaysOnlyBetweenAttempts ==
  /\ \A k \in SleepsAt :
       /\ k > 1
       /\ events[k - 1].type = "request"
       /\ events[k - 1].path = events[k].path
       /\ events[k - 1].attempt = events[k].attempt
       /\ k < Len(events) =>
            /\ events[k + 1].type = "request"
            /\ events[k + 1].path = events[k].path
            /\ events[k + 1].attempt = events[k].attempt + 1
  /\ pc = "sleep" <=> (events # <<>> /\ events[Len(events)].type = "sleep")
  /\ pc = "sleep" =>
       /\ faults # <<>>
       /\ faults[Len(faults)].status = 429 \/ TransientSignal(faults[Len(faults)])
       /\ Len(DelaysOf(curPath)) = AttemptsOf(curPath)
  /\ \A c \in DOMAIN calls :
       (pc # "sleep" \/ calls[c].path # curPath) =>
         Len(DelaysOf(calls[c].path)) = AttemptsOf(calls[c].path) - 1

\* C21 witness: the call for segment 1 failed on its third attempt after two
\* delays, with no delay after the last failure.
C21_Witness ==
  /\ pc = "rejected"
  /\ frame = "transcribeChunks"
  /\ i = 1
  /\ faults = <<E429, E500, E500>>
  /\ AttemptsOf(curPath) = 3
  /\ Len(DelaysOf(curPath)) = 2
  /\ events[Len(events)].type = "request"

\* C22: when a call has failed, the error the pipeline rejects with is the
\* error of the last attempt made, status and code unchanged, whatever the
\* earlier attempts of the call failed with.
C22_LastErrorPropagates ==
  (pc \in {"rejected", "responded"} /\ ~result.defined /\ faults # <<>>) =>
    /\ error = faults[Len(faults)]
    /\ error.status = faults[Len(faults)].status
    /\ error.code = faults[Len(faults)].code

\* C22 witness: a chunked run was rejected with the timeout of its third
\* attempt after a rate limit and a server error.
C22_Witness ==
  /\ pc = "rejected"
  /\ frame = "transcribeChunks"
  /\ faults = <<E429, E500, ETimedOut>>
  /\ error = ETimedOut

\* The claim's three categories of failure.
FailureCategory(e) ==
  IF RateLimitSignal(e) THEN "rate limit"
  ELSE IF TransientSignal(e) THEN "transient"
  ELSE "other"

\* C23: the error message POST answers a failed transcription with is one that
\* no failure of another category is answered with.
C23_CategoriesDistinct ==
  (pc = "responded" /\ ~result.defined) =>
    \A e \in Faults :
      FailureCategory(e) # FailureCategory(error) =>
        ErrorResponse(e).error # response.error

\* C24: at the validation step a video above 2048 MB is answered with an error
\* and goes no further.
C24_OversizeRejected ==
  [][(rpc = "validate" /\ form.video.kind = "file"
        /\ form.video.sizeKiB > 2048 * 1024) =>
       (rpc' = "finally" /\ ~response'.success)]_vars

\* C30: transcribeAudio called with an empty chunk list makes one call, for
\* the whole file with the caller's prompt, never calls the observer, and
\* resolves with that call's text and a processed count of 1.
C30_EmptyListAsAbsent ==
  (entry = "transcribeAudio" /\ pc # "idle" /\ chunks.defined /\ chunks.value = <<>>) =>
    /\ frame = "transcribeAudio"
    /\ calls = <<[path |-> AudioPath, prompt |-> options.prompt]>>
    /\ \A k \in DOMAIN events :
         events[k].type # "progress" /\ events[k].path = AudioPath
    /\ pc = "resolved" =>
         /\ Len(produced) = 1
         /\ result.transcript = produced[1].text
         /\ result.chunksProcessed = 1

\* C30 witness: such a call, made with an observer, has resolved after a retry.
C30_Witness ==
  /\ entry = "transcribeAudio"
  /\ chunks.defined
  /\ chunks.value = <<>>
  /\ options.onProgress
  /\ pc = "resolved"
  /\ AttemptsOf(AudioPath) = 2
  /\ result.chunksProcessed = 1


\* -------------------------------------------------------------- chunkAudio
\* The characters of the directory's file names in UTF-16 code unit order,
\* the order Array.prototype.sort() compares strings by.
CodeOrder ==
  <<".", "0", "1", "2", "3", "4", "5", "6", "7", "8", "9", "_",
    "a", "c", "d", "h", "i", "k", "m", "n", "o", "p", "u">>

charCodeAt(c) == CHOOSE k \in DOMAIN CodeOrder : CodeOrder[k] = c

\* a < b as strings.
StringLess(a, b) ==
  \E k \in 1..(Min(Len(a), Len(b)) + 1) :
    /\ \A j \in 1..(k - 1) : a[j] = b[j]
    /\ \/ k > Len(a) /\ k <= Len(b)
       \/ k <= Len(a) /\ k <= Len(b) /\ charCodeAt(a[k]) < charCodeAt(b[k])

endsWith(s, p) == Len(s) >= Len(p) /\ SubSeq(s, Len(s) - Len(p) + 1, Len(s)) = p

ChunkPrefix == <<"c", "h", "u", "n", "k", "_">>

Mp3Suffix == <<".", "m", "p", "3">>

DigitChar(d) == CHOOSE c \in Digits : DigitValue(c) = d

\* 'chunk_%03d.mp3' for segment number n.
ChunkName(n) ==
  ChunkPrefix
    \o <<DigitChar((n \div 100) % 10), DigitChar((n \div 10) % 10), DigitChar(n % 10)>>
    \o Mp3Suffix

\* The extracted audio, which lies in the same directory.
AudioName == <<"a", "u", "d", "i", "o">> \o Mp3Suffix

\* The file names ffmpeg left for n segments.
DirectoryOf(n) == {AudioName} \cup {ChunkName(k) : k \in 0..(n - 1)}

\* fs.readdir promises no order.
Listings(S) ==
  {l \in [1..Cardinality(S) -> S] : \A a, b \in DOMAIN l : l[a] = l[b] => a = b}

isChunkFile(f) == startsWith(f, ChunkPrefix) /\ endsWith(f, Mp3Suffix)

RECURSIVE insert(_, _)
insert(x, sorted) ==
  IF sorted = <<>> THEN <<x>>
  ELSE IF StringLess(x, Head(sorted)) THEN <<x>> \o sorted
  ELSE <<Head(sorted)>> \o insert(x, Tail(sorted))

\* files.sort()
RECURSIVE sort(_)
sort(files) ==
  IF files = <<>> THEN <<>> ELSE insert(Head(files), sort(Tail(files)))

OutputDir == "outputDir"

\* path.join(outputDir, file)
join(dir, file) == [dir |-> dir, file |-> file]

\* The probe of slot k, once it has answered.
ProbeOf(k) == CHOOSE p \in {probed[j] : j \in DOMAIN probed} : p.slot = k

RECURSIVE reduce(_)
reduce(cs) == IF cs = <<>> THEN 0 ELSE Head(cs).duration + reduce(Tail(cs))

\* An array filled in the order the probes answered.
PromiseAll_completionOrder ==
  [k \in DOMAIN chunkFiles |->
     [path |-> join(OutputDir, chunkFiles[probed[k].slot]),
      index |-> probed[k].slot - 1,
      duration |-> probed[k].duration]]

\* Promise.all(chunkFiles.map(async (file, index) => ...)): slot k of the array
\* holds what the callback for chunkFiles[k] returned.
PromiseAll ==
  [k \in DOMAIN chunkFiles |->
     [path |-> join(OutputDir, chunkFiles[k]),
      index |-> k - 1,
      duration |-> ProbeOf(k).duration]]

\* Durations ffprobe reports, in seconds.
Durations == {300, 17}

\* ffmpeg has written the segments; readdir resolves, the names are filtered
\* and sorted and one probe per chunk file is started (lines 143-154).
chunkAudio_readdir ==
  /\ cpc = "idle"
  /\ \E n \in 0..MaxFiles : \E l \in Listings(DirectoryOf(n)) :
       /\ listing' = l
       /\ chunkFiles' = sort(SelectSeq(l, isChunkFile))
  /\ probed' = <<>>
  /\ cpc' = "probing"
  /\ UNCHANGED <<chunkingResult, mainVars, dirVars, pageVars>>

\* getAudioDuration of one chunk file resolves.
ProbeResolves ==
  /\ cpc = "probing"
  /\ \E k \in DOMAIN chunkFiles : \E d \in Durations :
       /\ \A j \in DOMAIN probed : probed[j].slot # k
       /\ probed' = Append(probed, [slot |-> k, file |-> chunkFiles[k], duration |-> d])
  /\ UNCHANGED <<cpc, listing, chunkFiles, chunkingResult, mainVars, dirVars, pageVars>>

\* getAudioDuration of one chunk file rejects, and with it Promise.all.
ProbeRejects ==
  /\ cpc = "probing"
  /\ \E k \in DOMAIN chunkFiles : \A j \in DOMAIN probed : probed[j].slot # k
  /\ cpc' = "rejected"
  /\ UNCHANGED <<listing, chunkFiles, probed, chunkingResult, mainVars, dirVars, pageVars>>

\* All probes have answered: chunkAudio returns (lines 156-171).
chunkAudio_returns ==
  /\ cpc = "probing"
  /\ Len(probed) = Len(chunkFiles)
  /\ chunkingResult' = [chunks |-> PromiseAll, totalDuration |-> reduce(PromiseAll)]
  /\ cpc' = "returned"
  /\ UNCHANGED <<listing, chunkFiles, probed, mainVars, dirVars, pageVars>>

ChunkAudioNext ==
  \/ chunkAudio_readdir
  \/ ProbeResolves
  \/ ProbeRejects
  \/ chunkAudio_returns

SpecChunkAudio == Init /\ [][ChunkAudioNext]_vars

\* The chunk file names of the directory as it was listed.
ListedChunkNames == {f \in {listing[j] : j \in DOMAIN listing} : isChunkFile(f)}

\* The number of listed chunk names below f.
NamesBelow(f) == Cardinality({g \in ListedChunkNames : StringLess(g, f)})

\* C26: what chunkAudio returns has one descriptor per chunk file of the
\* directory; the descriptor at position k has index k - 1, the path of the
\* chunk file with k - 1 chunk names below it, and the duration probed for
\* that file, in whatever order the directory was listed and the probes
\* answered.
C26_DescriptorsInNameOrder ==
  cpc = "returned" =>
    LET cs == chunkingResult.chunks IN
    /\ Len(cs) = Cardinality(ListedChunkNames)
    /\ \A k \in DOMAIN cs :
         /\ cs[k].index = k - 1
         /\ cs[k].path.dir = OutputDir
         /\ cs[k].path.file \in ListedChunkNames
         /\ NamesBelow(cs[k].path.file) = k - 1
         /\ \E j \in DOMAIN probed :
              /\ probed[j].file = cs[k].path.file
              /\ probed[j].duration = cs[k].duration

\* C26 witness: three chunk files listed out of order, probes answered in the
\* order 2, 0, 1, and chunkAudio has returned.
C26_Witness ==
  /\ cpc = "returned"
  /\ Len(chunkingResult.chunks) = 3
  /\ listing[1] = ChunkName(2)
  /\ listing[2] = AudioName
  /\ probed[1].slot = 3
  /\ probed[2].slot = 1
  /\ probed[2].duration # probed[1].duration
  /\ chunkingResult.chunks[1].path.file = ChunkName(0)


\* ------------------------------------------------- temporary directories
\* Math.random().toString(36).substring(7): a few characters of the fraction
\* in base 36, or none when the fraction is short (0.5 is '0.i').
Randoms == {"", "k3x9f"}

\* `transcription_${timestamp}_${random}` under config.tempDir
TempDirName(timestamp, random) == [timestamp |-> timestamp, random |-> random]

\* `video_${Date.now()}${ext}` inside the request's directory
VideoFile(dir, timestamp, r) == [dir |-> dir, timestamp |-> timestamp, content |-> r]

Requests == {1, 2}

\* Date.now() moves on.
Tick ==
  /\ clock < MaxClock
  /\ clock' = clock + 1
  /\ UNCHANGED <<requests, dirsOnDisk, filesOnDisk, mainVars, chunkVars, pageVars>>

\* createTempDir() of request r (processor.ts lines 81-90): mkdir with
\* recursive: true succeeds whether or not the directory exists.
createTempDir(r) ==
  /\ requests[r].phase = "start"
  /\ \E random \in Randoms :
       LET dir == TempDirName(clock, random) IN
       /\ dirsOnDisk' = dirsOnDisk \cup {dir}
       /\ requests' = [requests EXCEPT ![r] = [phase |-> "created",
                                               dir |-> [defined |-> TRUE, value |-> dir]]]
  /\ UNCHANGED <<clock, filesOnDisk, mainVars, chunkVars, pageVars>>

\* saveUploadedFile(video, tempDir) of request r (lines 223-234): writeFile
\* replaces a file of the same path and fails when the directory is gone.
saveUploadedFile(r) ==
  /\ requests[r].phase = "created"
  /\ LET dir == requests[r].dir.value IN
     IF dir \in dirsOnDisk
     THEN /\ filesOnDisk' =
               {f \in filesOnDisk : f.dir # dir \/ f.timestamp # clock}
                 \cup {VideoFile(dir, clock, r)}
          /\ requests' = [requests EXCEPT ![r].phase = "saved"]
     ELSE /\ filesOnDisk' = filesOnDisk
          /\ requests' = [requests EXCEPT ![r].phase = "failed"]
  /\ UNCHANGED <<clock, dirsOnDisk, mainVars, chunkVars, pageVars>>

\* cleanupTempDir(tempDir) of request r in POST's finally block (route.ts
\* lines 167-171, processor.ts lines 211-218): rm with recursive and force.
cleanupTempDir(r) ==
  /\ requests[r].phase \in {"saved", "failed"}
  /\ LET dir == requests[r].dir.value IN
     /\ dirsOnDisk' = dirsOnDisk \ {dir}
     /\ filesOnDisk' = {f \in filesOnDisk : f.dir # dir}
  /\ requests' = [requests EXCEPT ![r].phase = "done"]
  /\ UNCHANGED <<clock, mainVars, chunkVars, pageVars>>

DirsNext ==
  \/ Tick
  \/ \E r \in Requests : createTempDir(r)
  \/ \E r \in Requests : saveUploadedFile(r)
  \/ \E r \in Requests : cleanupTempDir(r)

SpecDirs == Init /\ [][DirsNext]_vars

\* C25: two requests never hold the same temp directory, and the file a
\* request has saved and not yet cleaned up is on disk with its own content.
C25_OwnDirectoryPerRequest ==
  /\ \A r1, r2 \in Requests :
       (r1 # r2 /\ requests[r1].dir.defined /\ requests[r2].dir.defined) =>
         requests[r1].dir.value # requests[r2].dir.value
  /\ \A r \in Requests :
       requests[r].phase = "saved" =>
         \E f \in filesOnDisk : f.dir = requests[r].dir.value /\ f.content = r


\* ------------------------------------------------- the transcription page
\* VideoUploader's maxSizeMB prop, which the page leaves at its default.
maxSizeMB == 2048

TextPlain == <<"t", "e", "x", "t", "/", "p", "l", "a", "i", "n">>

\* The files a user may offer: two videos, a text file, a video over the limit.
FileA == [name |-> "a.mp4", type |-> VideoSlash \o Mp4, sizeKiB |-> 1]

FileB == [name |-> "b.mp4", type |-> VideoSlash \o Mp4, sizeKiB |-> 1]

FileText == [name |-> "notes.txt", type |-> TextPlain, sizeKiB |-> 1]

FileHuge == [name |-> "huge.mp4", type |-> VideoSlash \o Mp4, sizeKiB |-> maxSizeMB * 1024 + 1]

UserFiles == {FileA, FileB, FileText, FileHuge}

\* validateFile (VideoUploader lines 25-38); "" stands for null.
validateFile(file) ==
  IF ~startsWith(file.type, VideoSlash) THEN "Please select a valid video file"
  ELSE IF file.sizeKiB > maxSizeMB * 1024 THEN "File size must be less than 2048MB"
  ELSE ""

State(status, progress) == [status |-> status, progress |-> progress]

\* A page that never counts as processing.
isProcessing_never(st) == FALSE

\* isProcessing (page lines 212-214)
isProcessing(st) == st.status \in {"uploading", "extracting", "processing", "finalizing"}

\* The disabled prop the page passes to VideoUploader.
disabled == isProcessing(processingState)

\* A freshly mounted VideoUploader.
FreshUploader == [mounted |-> TRUE, selectedFile |-> NoFile, error |-> ""]

\* VideoUploader is rendered while the page has no result.
Render(up, res) ==
  IF res.defined THEN [mounted |-> FALSE, selectedFile |-> NoFile, error |-> ""]
  ELSE IF up.mounted THEN up
  ELSE FreshUploader

\* handleFile (VideoUploader lines 40-51) with the page's handleFileSelect
\* (page lines 121-125) as onFileSelect.
handleFile(file) ==
  IF validateFile(file) # ""
  THEN /\ uploader' = [uploader EXCEPT !.error = validateFile(file)]
       /\ UNCHANGED <<selectedFile, pageError, pageResult>>
  ELSE /\ selectedFile' = file
       /\ pageError' = ""
       /\ pageResult' = Undefined
       /\ uploader' = Render([uploader EXCEPT !.error = "", !.selectedFile = file], Undefined)

\* handleDrop (VideoUploader lines 65-75)
Drop ==
  /\ uploader.mounted
  /\ ~disabled
  /\ \E file \in UserFiles : handleFile(file)
  /\ UNCHANGED <<processingState, hpc, fetches, statusLog, mainVars, dirVars, chunkVars>>

\* handleBrowseClick and handleFileInputChange (VideoUploader lines 77-88)
Browse ==
  /\ uploader.mounted
  /\ ~disabled
  /\ \E file \in UserFiles : handleFile(file)
  /\ UNCHANGED <<processingState, hpc, fetches, statusLog, mainVars, dirVars, chunkVars>>

\* 'Change Video': handleClear (VideoUploader lines 90-96)
ChangeVideo ==
  /\ uploader.mounted
  /\ uploader.selectedFile # NoFile
  /\ ~disabled
  /\ uploader' = [uploader EXCEPT !.selectedFile = NoFile, !.error = ""]
  /\ UNCHANGED <<processingState, pageResult, pageError, selectedFile, hpc, fetches,
                 statusLog, mainVars, dirVars, chunkVars>>

\* The catch block that drops the result but keeps the progress reached.
catch_keepsProgress(message) ==
  /\ pageError' = IF message = "" THEN "Failed to transcribe video" ELSE message
  /\ processingState' = State("error", processingState.progress)
  /\ statusLog' = Append(statusLog, State("error", processingState.progress))
  /\ hpc' = "none"
  /\ UNCHANGED <<pageResult, selectedFile, uploader>>

\* The catch block of handleTranscribe (page lines 188-198).
catch(message) ==
  /\ pageError' = IF message = "" THEN "Failed to transcribe video" ELSE message
  /\ processingState' = State("error", 0)
  /\ statusLog' = Append(statusLog, State("error", 0))
  /\ hpc' = "none"
  /\ UNCHANGED <<pageResult, selectedFile, uploader>>

\* 'Start Transcription': handleTranscribe up to its fetch (page lines
\* 127-156); the button is rendered under !result, selectedFile and
\* !isProcessing.
handleTranscribe ==
  /\ ~pageResult.defined
  /\ selectedFile # NoFile
  /\ ~isProcessing(processingState)
  /\ pageError' = ""
  /\ pageResult' = Undefined
  /\ processingState' = State("extracting", 30)
  /\ statusLog' = <<State("uploading", 10), State("extracting", 30)>>
  /\ fetches' = fetches + 1
  /\ hpc' = "fetch"
  /\ uploader' = Render(uploader, Undefined)
  /\ UNCHANGED <<selectedFile, mainVars, dirVars, chunkVars>>

\* fetch rejects: no answer from the server.
FetchRejects ==
  /\ hpc = "fetch"
  /\ fetches' = fetches - 1
  /\ catch("Failed to fetch")
  /\ UNCHANGED <<mainVars, dirVars, chunkVars>>

\* fetch resolves with response.ok or without (page lines 158-168).
FetchResolves ==
  /\ hpc = "fetch"
  /\ \E ok \in BOOLEAN :
       IF ok
       THEN /\ processingState' = State("processing", 60)
            /\ statusLog' = Append(statusLog, State("processing", 60))
            /\ hpc' = "json"
       ELSE /\ hpc' = "errorJson"
            /\ UNCHANGED <<processingState, statusLog>>
  /\ UNCHANGED <<pageResult, pageError, selectedFile, uploader, fetches,
                 mainVars, dirVars, chunkVars>>

\* The error fields a non-OK answer may carry; "" stands for none.
ErrorFields == {"Rate limit exceeded", "Transcription failed", ""}

\* The body of a non-OK answer is read, or is not JSON (page lines 159-160).
ErrorBodyRead ==
  /\ hpc = "errorJson"
  /\ fetches' = fetches - 1
  /\ \/ \E e \in ErrorFields : catch(IF e = "" THEN "Transcription failed" ELSE e)
     \/ catch("Unexpected token")
  /\ UNCHANGED <<mainVars, dirVars, chunkVars>>

\* The body of an OK answer is read (page lines 170-177).
BodyRead ==
  /\ hpc = "json"
  /\ fetches' = fetches - 1
  /\ processingState' = State("finalizing", 90)
  /\ statusLog' = Append(statusLog, State("finalizing", 90))
  /\ hpc' = "delay"
  /\ UNCHANGED <<pageResult, pageError, selectedFile, uploader, mainVars, dirVars, chunkVars>>

\* The body of an OK answer is not JSON.
BodyRejects ==
  /\ hpc = "json"
  /\ fetches' = fetches - 1
  /\ catch("Unexpected token")
  /\ UNCHANGED <<mainVars, dirVars, chunkVars>>

\* What the server answered with.
Data == [success |-> TRUE, transcript |-> "transcript"]

\* The 500 ms are over: complete, and the result is stored (page lines 179-187).
DelayElapses ==
  /\ hpc = "delay"
  /\ processingState' = State("complete", 100)
  /\ statusLog' = Append(statusLog, State("complete", 100))
  /\ pageResult' = Some(Data)
  /\ uploader' = Render(uploader, Some(Data))
  /\ hpc' = "none"
  /\ UNCHANGED <<pageError, selectedFile, fetches, mainVars, dirVars, chunkVars>>

\* handleReset (page lines 201-210)
handleReset ==
  /\ selectedFile' = NoFile
  /\ pageResult' = Undefined
  /\ pageError' = ""
  /\ processingState' = State("idle", 0)
  /\ statusLog' = <<>>
  /\ uploader' = Render(uploader, Undefined)
  /\ UNCHANGED <<hpc, fetches, mainVars, dirVars, chunkVars>>

\* 'Try Again', rendered while the page has an error.
TryAgain ==
  /\ pageError # ""
  /\ handleReset

\* 'Transcribe Another Video', rendered with the result.
TranscribeAnother ==
  /\ pageResult.defined
  /\ processingState.status = "complete"
  /\ handleReset

PageNext ==
  \/ Drop
  \/ Browse
  \/ ChangeVideo
  \/ handleTranscribe
  \/ FetchRejects
  \/ FetchResolves
  \/ ErrorBodyRead
  \/ BodyRead
  \/ BodyRejects
  \/ DelayElapses
  \/ TryAgain
  \/ TranscribeAnother

SpecPage == Init /\ [][PageNext]_vars

\* The states of a successful run, in order.
SuccessfulRun ==
  <<State("uploading", 10), State("extracting", 30), State("processing", 60),
    State("finalizing", 90), State("complete", 100)>>

isPrefix(s, t) == Len(s) <= Len(t) /\ SubSeq(t, 1, Len(s)) = s

\* C27: the states a run of handleTranscribe has set are the first states of
\* uploading 10, extracting 30, processing 60, finalizing 90, complete 100,
\* in this order, or some of these first states followed by error 0; a result
\* is stored only with all five set and status complete, and a run that ended
\* in error has stored no result and has progress 0.
C27_StatusSequence ==
  /\ \/ isPrefix(statusLog, SuccessfulRun)
     \/ /\ statusLog # <<>>
        /\ statusLog[Len(statusLog)] = State("error", 0)
        /\ isPrefix(SubSeq(statusLog, 1, Len(statusLog) - 1), SuccessfulRun)
        /\ Len(statusLog) < 5
  /\ \A k \in DOMAIN statusLog :
       (k > 1 /\ statusLog[k].status # "error") =>
          statusLog[k].progress > statusLog[k - 1].progress
  /\ pageResult.defined =>
       /\ statusLog = SuccessfulRun
       /\ processingState = State("complete", 100)
  /\ statusLog = SuccessfulRun => pageResult.defined
  /\ processingState.status = "error" =>
       /\ processingState.progress = 0
       /\ ~pageResult.defined
  /\ (hpc = "none" /\ statusLog # <<>>) =>
       \/ pageResult.defined
       \/ statusLog[Len(statusLog)] = State("error", 0)

\* C27 witness: a run for the second video has set all five states and stored
\* its result.
C27_Witness ==
  /\ statusLog = SuccessfulRun
  /\ pageResult.defined
  /\ processingState = State("complete", 100)
  /\ selectedFile = FileB

\* C28: while VideoUploader is on the page, the file it shows is the page's
\* selectedFile.
C28_UploaderShowsPageFile ==
  uploader.mounted => uploader.selectedFile = selectedFile

\* C29: at most one request is in flight, and while the page is processing
\* the selected file of the page and of VideoUploader stays and no request is
\* started.
C29_OneRequestFileFixed ==
  /\ [](fetches <= 1 /\ (fetches = 1 => isProcessing(processingState)))
  /\ [][isProcessing(processingState) =>
          /\ selectedFile' = selectedFile
          /\ uploader'.mounted => uploader'.selectedFile = uploader.selectedFile
          /\ fetches' <= fetches]_vars

\* C29 witness: a request is in flight for the selected file.
C29_Witness ==
  /\ hpc = "fetch"
  /\ fetches = 1
  /\ selectedFile = FileA
  /\ uploader.selectedFile = FileA
  /\ processingState = State("extracting", 30)

====
